---- MODULE Spec2Model ----
(***************************************************************************)
(* Model of crates/runtime_utils/src/response.rs (lagon).                  *)
(*                                                                         *)
(* handle_response consumes the first RunResult of the result channel and  *)
(* either answers at once or enters streaming mode, where a spawned task   *)
(* (the forwarder) drains the rest of the channel into the body stream and *)
(* hands the response of a Start over a capacity-one channel.              *)
(*                                                                         *)
(* Processes: the producer (the isolate holding the flume Sender), the     *)
(* caller's task running handle_response, and the forwarder task.          *)
(* Bytes are small integers, a Vec<u8> is a sequence of them, an Option is *)
(* a sequence of length at most one, a Duration is a number of             *)
(* milliseconds.                                                           *)
(***************************************************************************)
EXTENDS Integers, Sequences, FiniteSets, TLC

(* ---------------------------- bounds ----------------------------------- *)

\* number of messages the producer puts on the result channel
MaxMsgs == 4

(* --------------------------- constants --------------------------------- *)

\* contents of the static pages, opaque and pairwise distinct
PAGE_404 == <<104>>
PAGE_502 == <<102>>
PAGE_500 == <<100>>

\* flume::bounded(1), the header handoff channel
HandoffCap == 1

(* ---------------------------- messages --------------------------------- *)

\* lagon_runtime_http::Response values the producer may send. The headers
\* are named, not spelled out; all of them convert to a hyper Builder.
Responses ==
    { [status |-> 200, headers |-> "h1", body |-> <<>>],
      [status |-> 201, headers |-> "h2", body |-> <<7, 8>>] }

Payloads == { <<1>>, <<2, 3>> }

\* Duration values, in milliseconds
Durations == { 2 }

None == <<>>
Some(x) == <<x>>

StartMsg(r) == [tag |-> "Start", response |-> r]
DataMsg(b) == [tag |-> "Data", bytes |-> b]
DoneMsg(d) == [tag |-> "Done", elapsed |-> d]
ResponseMsg(r, e) == [tag |-> "Response", response |-> r, elapsed |-> e]
TimeoutMsg == [tag |-> "Timeout"]
MemoryLimitMsg == [tag |-> "MemoryLimit"]
ErrorMsg == [tag |-> "Error"]
NotFoundMsg == [tag |-> "NotFound"]

StreamResult ==
    { StartMsg(r) : r \in Responses }
    \cup { DataMsg(b) : b \in Payloads }
    \cup { DoneMsg(d) : d \in Durations }

RunResult ==
    StreamResult
    \cup { ResponseMsg([status |-> 200, headers |-> "h1", body |-> <<>>], None) }
    \cup { ResponseMsg([status |-> 201, headers |-> "h2", body |-> <<7, 8>>], Some(d)) :
             d \in Durations }
    \cup { TimeoutMsg, MemoryLimitMsg, ErrorMsg, NotFoundMsg }

IsStream(m) == m.tag \in {"Start", "Data", "Done"}

(* ------------------------- pure helpers -------------------------------- *)

\* Duration::as_micros
AsMicros(d) == d * 1000

\* the elapsed time passed on in the unit it came in
MapMillis(e) == e

\* Option::map(|duration| duration.as_micros())
MapMicros(e) == IF e = None THEN None ELSE Some(AsMicros(e[1]))

\* Response::len: the length of the body
ResponseLen(r) == Len(r.body)

\* Builder::try_from(&response): status and headers of the response
BuilderFrom(r) == [status |-> r.status, headers |-> r.headers]

\* the bytes a reader of the body stream gets from the chunks written
RECURSIVE Concat(_)
Concat(chunks) ==
    IF chunks = <<>> THEN <<>> ELSE Head(chunks) \o Concat(Tail(chunks))

(* ------------------------- response events ----------------------------- *)

BytesEvent(n, e, who) == [kind |-> "Bytes", total |-> n, elapsed |-> e, by |-> who]
StreamDoneNoDataErrorEvent(who) == [kind |-> "StreamDoneNoDataError", by |-> who]
UnexpectedStreamResultEvent(m, who) == [kind |-> "UnexpectedStreamResult", msg |-> m, by |-> who]
LimitsReachedEvent(m, who) == [kind |-> "LimitsReached", msg |-> m, by |-> who]
ErrorEvent(m, who) == [kind |-> "Error", msg |-> m, by |-> who]

(* ------------------------------ state ---------------------------------- *)

VARIABLES
    chan,         \* result channel: messages sent and not yet received
    txAlive,      \* the producer still holds the Sender of the result channel
    rxAlive,      \* rx, the Receiver of the result channel, is not dropped
    consumed,     \* history: every message received from the result channel
    notifier,     \* on_event: "reliable" returns Ok, "faulty" may return Err,
                  \* "failed" has returned Err
    pc,           \* position of handle_response
    result,       \* the first message, as an Option
    pcF,          \* position of the spawned task
    pending,      \* response the spawned task is blocked sending, as an Option
    handoff,      \* queue of the bounded(1) response channel
    handoffRx,    \* response_rx is not dropped
    total_bytes,  \* total_bytes
    sink,         \* every chunk accepted by stream_tx, in order
    streamTx,     \* stream_tx is not dropped (the body stream has not ended)
    bodyAlive,    \* stream_rx (inside body) is not dropped
    events,       \* history: every ResponseEvent passed to on_event, in order
    ret           \* what handle_response returned

vars == << chan, txAlive, rxAlive, consumed, notifier, pc, result, pcF, pending,
           handoff, handoffRx, total_bytes, sink, streamTx, bodyAlive, events, ret >>

streamVars == << handoff, handoffRx, total_bytes, sink, streamTx, bodyAlive >>
forwarderVars == << pcF, pending >>

NoReturn == [kind |-> "none"]
Err(why) == [kind |-> "err", why |-> why]
OkStream(b) == [kind |-> "ok", status |-> b.status, headers |-> b.headers,
                streamed |-> TRUE, body |-> <<>>]
OkBody(st, hd, bd) == [kind |-> "ok", status |-> st, headers |-> hd,
                       streamed |-> FALSE, body |-> bd]

\* outcomes of on_event(..).await: TRUE is Ok(()), FALSE is Err
Outcomes == IF notifier = "reliable" THEN {TRUE} ELSE {TRUE, FALSE}

InitCommon ==
    /\ chan = <<>>
    /\ txAlive = TRUE
    /\ rxAlive = TRUE
    /\ consumed = <<>>
    /\ pc = "recv"
    /\ result = None
    /\ pcF = "none"
    /\ pending = None
    /\ handoff = <<>>
    /\ handoffRx = FALSE
    /\ total_bytes = 0
    /\ sink = <<>>
    /\ streamTx = FALSE
    /\ bodyAlive = FALSE
    /\ events = <<>>
    /\ ret = NoReturn

Init ==
    /\ InitCommon
    /\ notifier = "reliable"

(* ----------------------------- producer -------------------------------- *)

\* tx.send_async(m): queued while the receiver exists
Send(m) ==
    /\ txAlive
    /\ rxAlive
    /\ Len(consumed) + Len(chan) < MaxMsgs
    /\ chan' = Append(chan, m)
    /\ UNCHANGED << txAlive, rxAlive, consumed, notifier, pc, result, pcF, pending,
                    handoff, handoffRx, total_bytes, sink, streamTx, bodyAlive,
                    events, ret >>

\* drop(tx)
DropTx ==
    /\ txAlive
    /\ txAlive' = FALSE
    /\ UNCHANGED << chan, rxAlive, consumed, notifier, pc, result, pcF, pending,
                    handoff, handoffRx, total_bytes, sink, streamTx, bodyAlive,
                    events, ret >>

(* -------------------------- handle_response ---------------------------- *)

\* chunks queued in front of the ones already there
SinkSendPrepend(s, chunk) == IF bodyAlive THEN <<chunk>> \o s ELSE s

\* a chunk sent on stream_tx is queued unless the receiver is gone
SinkSend(s, chunk) == IF bodyAlive THEN Append(s, chunk) ELSE s

\* let result = rx.recv_async().await?  -- a message is there
RecvFirst ==
    /\ pc = "recv"
    /\ chan # <<>>
    /\ result' = Some(Head(chan))
    /\ consumed' = Append(consumed, Head(chan))
    /\ chan' = Tail(chan)
    /\ pc' = "match"
    /\ UNCHANGED << txAlive, rxAlive, notifier, events, ret >>
    /\ UNCHANGED streamVars
    /\ UNCHANGED forwarderVars

\* let result = rx.recv_async().await?  -- channel empty and disconnected
RecvFirstDisconnected ==
    /\ pc = "recv"
    /\ chan = <<>>
    /\ ~txAlive
    /\ ret' = Err("RecvError")
    /\ pc' = "returned"
    /\ rxAlive' = FALSE
    /\ UNCHANGED << chan, txAlive, consumed, notifier, result, events >>
    /\ UNCHANGED streamVars
    /\ UNCHANGED forwarderVars

\* RunResult::Stream(StreamResult::Start(response)): the two channels are
\* created, the response goes into the empty handoff queue, the task is spawned
StreamStart ==
    /\ pc = "match"
    /\ result[1].tag = "Start"
    /\ handoff' = <<result[1].response>>
    /\ handoffRx' = TRUE
    /\ total_bytes' = 0
    /\ sink' = <<>>
    /\ streamTx' = TRUE
    /\ bodyAlive' = TRUE
    /\ pcF' = "recv"
    /\ pc' = "wait"
    /\ UNCHANGED << chan, txAlive, rxAlive, consumed, notifier, result, pending,
                    events, ret >>

\* the first chunk is counted and never written to stream_tx
StreamDataUnwritten ==
    /\ pc = "match"
    /\ result[1].tag = "Data"
    /\ handoff' = <<>>
    /\ handoffRx' = TRUE
    /\ total_bytes' = 0 + Len(result[1].bytes)
    /\ sink' = <<>>
    /\ streamTx' = TRUE
    /\ bodyAlive' = TRUE
    /\ pcF' = "recv"
    /\ pc' = "wait"
    /\ UNCHANGED << chan, txAlive, rxAlive, consumed, notifier, result, pending,
                    events, ret >>

\* the first chunk is written and left out of total_bytes
StreamDataUncounted ==
    /\ pc = "match"
    /\ result[1].tag = "Data"
    /\ handoff' = <<>>
    /\ handoffRx' = TRUE
    /\ total_bytes' = 0
    /\ sink' = <<result[1].bytes>>
    /\ streamTx' = TRUE
    /\ bodyAlive' = TRUE
    /\ pcF' = "recv"
    /\ pc' = "wait"
    /\ UNCHANGED << chan, txAlive, rxAlive, consumed, notifier, result, pending,
                    events, ret >>

\* RunResult::Stream(StreamResult::Data(bytes))
StreamData ==
    /\ pc = "match"
    /\ result[1].tag = "Data"
    /\ handoff' = <<>>
    /\ handoffRx' = TRUE
    /\ total_bytes' = 0 + Len(result[1].bytes)
    /\ sink' = <<result[1].bytes>>
    /\ streamTx' = TRUE
    /\ bodyAlive' = TRUE
    /\ pcF' = "recv"
    /\ pc' = "wait"
    /\ UNCHANGED << chan, txAlive, rxAlive, consumed, notifier, result, pending,
                    events, ret >>

\* a Done arm that also hands over a default response
StreamDoneDefaultResponse ==
    /\ pc = "match"
    /\ result[1].tag = "Done"
    /\ events' = Append(events, StreamDoneNoDataErrorEvent("handle_response"))
    /\ total_bytes' = 0
    /\ handoff' = << [status |-> 200, headers |-> "", body |-> <<>>] >>
    /\ handoffRx' = TRUE
    /\ sink' = << <<>> >>
    /\ streamTx' = TRUE
    /\ bodyAlive' = TRUE
    /\ pcF' = "recv"
    /\ pc' = "wait"
    /\ UNCHANGED << chan, txAlive, rxAlive, consumed, notifier, result, pending, ret >>

\* a Done arm that discards the Err of on_event
StreamDoneIgnoresErr ==
    /\ pc = "match"
    /\ result[1].tag = "Done"
    /\ events' = Append(events, StreamDoneNoDataErrorEvent("handle_response"))
    /\ total_bytes' = 0
    /\ handoff' = <<>>
    /\ \E ok \in Outcomes :
         notifier' = (IF ok THEN notifier ELSE "failed")
    /\ handoffRx' = TRUE
    /\ sink' = << <<>> >>
    /\ streamTx' = TRUE
    /\ bodyAlive' = TRUE
    /\ pcF' = "recv"
    /\ pc' = "wait"
    /\ UNCHANGED << chan, txAlive, rxAlive, consumed, result, pending, ret >>

\* RunResult::Stream(StreamResult::Done(_)): the event, then the empty chunk;
\* an Err of on_event returns from handle_response and drops every channel end
StreamDone ==
    /\ pc = "match"
    /\ result[1].tag = "Done"
    /\ events' = Append(events, StreamDoneNoDataErrorEvent("handle_response"))
    /\ total_bytes' = 0
    /\ handoff' = <<>>
    /\ \E ok \in Outcomes :
         /\ notifier' = (IF ok THEN notifier ELSE "failed")
         /\ IF ok
            THEN /\ handoffRx' = TRUE
                 /\ sink' = << <<>> >>
                 /\ streamTx' = TRUE
                 /\ bodyAlive' = TRUE
                 /\ pcF' = "recv"
                 /\ pc' = "wait"
                 /\ UNCHANGED << rxAlive, ret >>
            ELSE /\ handoffRx' = FALSE
                 /\ sink' = <<>>
                 /\ streamTx' = FALSE
                 /\ bodyAlive' = FALSE
                 /\ pcF' = pcF
                 /\ pc' = "returned"
                 /\ rxAlive' = FALSE
                 /\ ret' = Err("on_event")
    /\ UNCHANGED << chan, txAlive, consumed, result, pending >>

\* a return that waits until the spawned task has received a message
AwaitResponseAfterForwarding ==
    /\ pc = "wait"
    /\ handoff # <<>>
    /\ Len(consumed) >= 2
    /\ ret' = OkStream(BuilderFrom(Head(handoff)))
    /\ handoff' = Tail(handoff)
    /\ handoffRx' = FALSE
    /\ pc' = "returned"
    /\ UNCHANGED << chan, txAlive, rxAlive, consumed, notifier, result, pcF, pending,
                    total_bytes, sink, streamTx, bodyAlive, events >>

\* let response = response_rx.recv_async().await?; Builder::try_from(&response)?
\* .body(body): a response is queued
AwaitResponse ==
    /\ pc = "wait"
    /\ handoff # <<>>
    /\ ret' = OkStream(BuilderFrom(Head(handoff)))
    /\ handoff' = Tail(handoff)
    /\ handoffRx' = FALSE
    /\ pc' = "returned"
    /\ UNCHANGED << chan, txAlive, rxAlive, consumed, notifier, result, pcF, pending,
                    total_bytes, sink, streamTx, bodyAlive, events >>

\* a default response in place of the error of the closed handoff channel
AwaitResponseDisconnectedDefault ==
    /\ pc = "wait"
    /\ handoff = <<>>
    /\ pcF \in {"done", "panicked"}
    /\ ret' = OkStream([status |-> 200, headers |-> ""])
    /\ handoffRx' = FALSE
    /\ pc' = "returned"
    /\ UNCHANGED << chan, txAlive, rxAlive, consumed, notifier, result, pcF, pending,
                    handoff, total_bytes, sink, streamTx, bodyAlive, events >>

\* response_rx.recv_async().await?  -- queue empty and response_tx dropped with
\* the spawned task: the error is returned and body is dropped
AwaitResponseDisconnected ==
    /\ pc = "wait"
    /\ handoff = <<>>
    /\ pcF \in {"done", "panicked"}
    /\ ret' = Err("RecvError")
    /\ handoffRx' = FALSE
    /\ bodyAlive' = FALSE
    /\ pc' = "returned"
    /\ UNCHANGED << chan, txAlive, rxAlive, consumed, notifier, result, pcF, pending,
                    handoff, total_bytes, sink, streamTx, events >>

\* the event of a first message that is not a Stream; NotFound has none
FirstEvent(m) ==
    CASE m.tag = "Response" ->
           Some(BytesEvent(ResponseLen(m.response), MapMicros(m.elapsed), "handle_response"))
      [] m.tag \in {"Timeout", "MemoryLimit"} ->
           Some(LimitsReachedEvent(m, "handle_response"))
      [] m.tag = "Error" -> Some(ErrorEvent(m, "handle_response"))
      [] OTHER -> None

\* the pages of the limit and error arms exchanged
FirstResponseSwapped(m) ==
    CASE m.tag = "Response" ->
           OkBody(BuilderFrom(m.response).status, BuilderFrom(m.response).headers,
                  m.response.body)
      [] m.tag \in {"Timeout", "MemoryLimit"} -> OkBody(500, "", PAGE_500)
      [] m.tag = "Error" -> OkBody(502, "", PAGE_502)
      [] OTHER -> OkBody(404, "", PAGE_404)

\* the response of a first message that is not a Stream
FirstResponse(m) ==
    CASE m.tag = "Response" ->
           OkBody(BuilderFrom(m.response).status, BuilderFrom(m.response).headers,
                  m.response.body)
      [] m.tag \in {"Timeout", "MemoryLimit"} -> OkBody(502, "", PAGE_502)
      [] m.tag = "Error" -> OkBody(500, "", PAGE_500)
      [] OTHER -> OkBody(404, "", PAGE_404)

\* on_event(..).await? of the Response, Timeout | MemoryLimit and Error arms
NotifyFirst ==
    /\ pc = "match"
    /\ result[1].tag \in {"Response", "Timeout", "MemoryLimit", "Error"}
    /\ events' = events \o FirstEvent(result[1])
    /\ \E ok \in Outcomes :
         /\ notifier' = (IF ok THEN notifier ELSE "failed")
         /\ IF ok
            THEN /\ pc' = "build"
                 /\ UNCHANGED << rxAlive, ret >>
            ELSE /\ pc' = "returned"
                 /\ rxAlive' = FALSE
                 /\ ret' = Err("on_event")
    /\ UNCHANGED << chan, txAlive, consumed, result >>
    /\ UNCHANGED streamVars
    /\ UNCHANGED forwarderVars

\* Ok(..) of the Response, Timeout | MemoryLimit and Error arms
ReturnFirst ==
    /\ pc = "build"
    /\ ret' = FirstResponse(result[1])
    /\ pc' = "returned"
    /\ rxAlive' = FALSE
    /\ UNCHANGED << chan, txAlive, consumed, notifier, result, events >>
    /\ UNCHANGED streamVars
    /\ UNCHANGED forwarderVars

\* NotFound reported to the notifier like the Error arm
ReturnNotFoundNotifies ==
    /\ pc = "match"
    /\ result[1].tag = "NotFound"
    /\ events' = Append(events, ErrorEvent(result[1], "handle_response"))
    /\ ret' = OkBody(404, "", PAGE_404)
    /\ pc' = "returned"
    /\ rxAlive' = FALSE
    /\ UNCHANGED << chan, txAlive, consumed, notifier, result >>
    /\ UNCHANGED streamVars
    /\ UNCHANGED forwarderVars

\* RunResult::NotFound => Ok(HyperResponse::builder().status(404)..)
ReturnNotFound ==
    /\ pc = "match"
    /\ result[1].tag = "NotFound"
    /\ ret' = FirstResponse(result[1])
    /\ pc' = "returned"
    /\ rxAlive' = FALSE
    /\ UNCHANGED << chan, txAlive, consumed, notifier, result, events >>
    /\ UNCHANGED streamVars
    /\ UNCHANGED forwarderVars

(* ---------------------------- spawned task ----------------------------- *)

\* the task ends: rx, response_tx and stream_tx are dropped with the closure
TaskEnds(how) ==
    /\ pcF' = how
    /\ rxAlive' = FALSE
    /\ streamTx' = FALSE

\* a handoff that replaces the queued response by the newer one
ForwardStartOverwrites ==
    /\ pcF = "recv"
    /\ chan # <<>>
    /\ Head(chan).tag = "Start"
    /\ consumed' = Append(consumed, Head(chan))
    /\ chan' = Tail(chan)
    /\ IF ~handoffRx
       THEN UNCHANGED handoff
       ELSE handoff' = << Head(chan).response >>
    /\ UNCHANGED << txAlive, rxAlive, notifier, pc, result, pcF, pending, handoffRx,
                    total_bytes, sink, streamTx, bodyAlive, events, ret >>

\* RunResult::Stream(StreamResult::Start(response)): send_async on the handoff
\* channel; it fails at once when response_rx is dropped, waits when the queue
\* is full
ForwardStart ==
    /\ pcF = "recv"
    /\ chan # <<>>
    /\ Head(chan).tag = "Start"
    /\ consumed' = Append(consumed, Head(chan))
    /\ chan' = Tail(chan)
    /\ IF ~handoffRx
       THEN UNCHANGED << handoff, pcF, pending >>
       ELSE IF Len(handoff) < HandoffCap
       THEN /\ handoff' = Append(handoff, Head(chan).response)
            /\ UNCHANGED << pcF, pending >>
       ELSE /\ pcF' = "send"
            /\ pending' = Some(Head(chan).response)
            /\ UNCHANGED handoff
    /\ UNCHANGED << txAlive, rxAlive, notifier, pc, result, handoffRx, total_bytes,
                    sink, streamTx, bodyAlive, events, ret >>

\* a waiting send that is woken by room in the queue only
ForwardStartResumeNeedsRoom ==
    /\ pcF = "send"
    /\ handoffRx
    /\ Len(handoff) < HandoffCap
    /\ handoff' = Append(handoff, pending[1])
    /\ pending' = None
    /\ pcF' = "recv"
    /\ UNCHANGED << chan, txAlive, rxAlive, consumed, notifier, pc, result, handoffRx,
                    total_bytes, sink, streamTx, bodyAlive, events, ret >>

\* the waiting send_async completes: room in the queue, or response_rx dropped
\* (unwrap_or(()) discards the error)
ForwardStartResume ==
    /\ pcF = "send"
    /\ \/ /\ handoffRx
          /\ Len(handoff) < HandoffCap
          /\ handoff' = Append(handoff, pending[1])
       \/ /\ ~handoffRx
          /\ UNCHANGED handoff
    /\ pending' = None
    /\ pcF' = "recv"
    /\ UNCHANGED << chan, txAlive, rxAlive, consumed, notifier, pc, result, handoffRx,
                    total_bytes, sink, streamTx, bodyAlive, events, ret >>

\* a Data arm that leaves the loop when the send on stream_tx fails
ForwardDataStopsOnSendError ==
    /\ pcF = "recv"
    /\ chan # <<>>
    /\ Head(chan).tag = "Data"
    /\ consumed' = Append(consumed, Head(chan))
    /\ chan' = Tail(chan)
    /\ total_bytes' = total_bytes + Len(Head(chan).bytes)
    /\ sink' = SinkSend(sink, Head(chan).bytes)
    /\ IF bodyAlive
       THEN UNCHANGED << pcF, rxAlive, streamTx >>
       ELSE TaskEnds("done")
    /\ UNCHANGED << txAlive, notifier, pc, result, pending, handoff, handoffRx,
                    bodyAlive, events, ret >>

\* RunResult::Stream(StreamResult::Data(bytes))
ForwardData ==
    /\ pcF = "recv"
    /\ chan # <<>>
    /\ Head(chan).tag = "Data"
    /\ consumed' = Append(consumed, Head(chan))
    /\ chan' = Tail(chan)
    /\ total_bytes' = total_bytes + Len(Head(chan).bytes)
    /\ sink' = SinkSend(sink, Head(chan).bytes)
    /\ UNCHANGED << txAlive, rxAlive, notifier, pc, result, pcF, pending, handoff,
                    handoffRx, streamTx, bodyAlive, events, ret >>

\* a Done arm that reports StreamDoneNoDataError while no Start was received
ForwardDoneWithoutStart ==
    /\ pcF = "recv"
    /\ chan # <<>>
    /\ Head(chan).tag = "Done"
    /\ consumed' = Append(consumed, Head(chan))
    /\ chan' = Tail(chan)
    /\ events' = Append(events,
                   IF \A i \in 1..Len(consumed) : consumed[i].tag # "Start"
                   THEN StreamDoneNoDataErrorEvent("forwarder")
                   ELSE BytesEvent(total_bytes, Some(AsMicros(Head(chan).elapsed)),
                                   "forwarder"))
    /\ sink' = SinkSend(sink, <<>>)
    /\ UNCHANGED << txAlive, rxAlive, notifier, pc, result, pcF, pending, handoff,
                    handoffRx, total_bytes, streamTx, bodyAlive, ret >>

\* RunResult::Stream(StreamResult::Done(elapsed)): the Bytes event, the empty
\* chunk, and the loop goes on; an Err of on_event panics the task (expect)
ForwardDone ==
    /\ pcF = "recv"
    /\ chan # <<>>
    /\ Head(chan).tag = "Done"
    /\ consumed' = Append(consumed, Head(chan))
    /\ chan' = Tail(chan)
    /\ events' = Append(events,
                   BytesEvent(total_bytes, Some(AsMicros(Head(chan).elapsed)), "forwarder"))
    /\ \E ok \in Outcomes :
         /\ notifier' = (IF ok THEN notifier ELSE "failed")
         /\ IF ok
            THEN /\ sink' = SinkSend(sink, <<>>)
                 /\ UNCHANGED << pcF, rxAlive, streamTx >>
            ELSE /\ TaskEnds("panicked")
                 /\ UNCHANGED sink
    /\ UNCHANGED << txAlive, pc, result, pending, handoff, handoffRx,
                    total_bytes, bodyAlive, ret >>

\* the catch-all arm without its break
ForwardUnexpectedNoBreak ==
    /\ pcF = "recv"
    /\ chan # <<>>
    /\ ~IsStream(Head(chan))
    /\ consumed' = Append(consumed, Head(chan))
    /\ chan' = Tail(chan)
    /\ events' = Append(events, UnexpectedStreamResultEvent(Head(chan), "forwarder"))
    /\ \E ok \in Outcomes :
         /\ notifier' = (IF ok THEN notifier ELSE "failed")
         /\ IF ok
            THEN /\ sink' = SinkSend(sink, <<>>)
                 /\ UNCHANGED << pcF, rxAlive, streamTx >>
            ELSE /\ TaskEnds("panicked")
                 /\ UNCHANGED sink
    /\ UNCHANGED << txAlive, pc, result, pending, handoff, handoffRx,
                    total_bytes, bodyAlive, ret >>

\* _ => UnexpectedStreamResult(result), the empty chunk, break
ForwardUnexpected ==
    /\ pcF = "recv"
    /\ chan # <<>>
    /\ ~IsStream(Head(chan))
    /\ consumed' = Append(consumed, Head(chan))
    /\ chan' = Tail(chan)
    /\ events' = Append(events, UnexpectedStreamResultEvent(Head(chan), "forwarder"))
    /\ \E ok \in Outcomes :
         /\ notifier' = (IF ok THEN notifier ELSE "failed")
         /\ IF ok
            THEN /\ sink' = SinkSend(sink, <<>>)
                 /\ TaskEnds("done")
            ELSE /\ TaskEnds("panicked")
                 /\ UNCHANGED sink
    /\ UNCHANGED << txAlive, pc, result, pending, handoff, handoffRx,
                    total_bytes, bodyAlive, ret >>

\* a loop that reports the bytes forwarded when the channel closes
ForwardDisconnectedReports ==
    /\ pcF = "recv"
    /\ chan = <<>>
    /\ ~txAlive
    /\ events' = Append(events, BytesEvent(total_bytes, None, "forwarder"))
    /\ TaskEnds("done")
    /\ UNCHANGED << chan, txAlive, consumed, notifier, pc, result, pending, handoff,
                    handoffRx, total_bytes, sink, bodyAlive, ret >>

\* while let Ok(result) = rx.recv_async().await  -- empty and disconnected
ForwardDisconnected ==
    /\ pcF = "recv"
    /\ chan = <<>>
    /\ ~txAlive
    /\ TaskEnds("done")
    /\ UNCHANGED << chan, txAlive, consumed, notifier, pc, result, pending, handoff,
                    handoffRx, total_bytes, sink, bodyAlive, events, ret >>

(* --------------------------- specification ----------------------------- *)

Next ==
    \/ \E m \in RunResult : Send(m)
    \/ DropTx
    \/ RecvFirst
    \/ RecvFirstDisconnected
    \/ StreamStart
    \/ StreamData
    \/ StreamDone
    \/ AwaitResponse
    \/ AwaitResponseDisconnected
    \/ NotifyFirst
    \/ ReturnFirst
    \/ ReturnNotFound
    \/ ForwardStart
    \/ ForwardStartResume
    \/ ForwardData
    \/ ForwardDone
    \/ ForwardUnexpected
    \/ ForwardDisconnected

Spec == Init /\ [][Next]_vars

\* the same program with a notifier that may return Err
InitFaulty ==
    /\ InitCommon
    /\ notifier = "faulty"

SpecFaulty == InitFaulty /\ [][Next]_vars

\* the caller drops the streamed response it got, and stream_rx with it
DropResponse ==
    /\ pc = "returned"
    /\ ret.kind = "ok"
    /\ ret.streamed
    /\ bodyAlive
    /\ bodyAlive' = FALSE
    /\ UNCHANGED << chan, txAlive, rxAlive, consumed, notifier, pc, result, pcF, pending,
                    handoff, handoffRx, total_bytes, sink, streamTx, events, ret >>

NextDrop == Next \/ DropResponse

SpecDrop == Init /\ [][NextDrop]_vars

\* the steps of the task that awaits handle_response
HandleStep ==
    \/ RecvFirst
    \/ RecvFirstDisconnected
    \/ StreamStart
    \/ StreamData
    \/ StreamDone
    \/ AwaitResponse
    \/ AwaitResponseDisconnected
    \/ NotifyFirst
    \/ ReturnFirst
    \/ ReturnNotFound

\* the steps of the task spawned by tokio::spawn
ForwarderStep ==
    \/ ForwardStart
    \/ ForwardStartResume
    \/ ForwardData
    \/ ForwardDone
    \/ ForwardUnexpected
    \/ ForwardDisconnected

\* the messages of the fair specifications: every Stream message, and of the
\* others one that handle_response reports and one that it does not (the
\* spawned task has a single arm for all of them)
ArmMsgs == StreamResult \cup { TimeoutMsg, NotFoundMsg }

NextArms ==
    \/ \E m \in ArmMsgs : Send(m)
    \/ DropTx
    \/ HandleStep
    \/ ForwarderStep

\* the executor keeps polling the caller's task; nothing is assumed of the
\* producer and of the spawned task
SpecCallerFair == Init /\ [][NextArms]_vars /\ WF_vars(HandleStep)

\* the executor keeps polling both tasks; nothing is assumed of the producer
SpecFair == Init /\ [][NextArms]_vars /\ WF_vars(HandleStep) /\ WF_vars(ForwarderStep)

TypeOK ==
    /\ notifier \in {"reliable", "faulty", "failed"}
    /\ Len(handoff) <= HandoffCap
    /\ pc \in {"recv", "match", "build", "wait", "returned"}
    /\ pcF \in {"none", "recv", "send", "done", "panicked"}

(* ------------------- operators used by the properties ------------------ *)

Last(s) == s[Len(s)]

\* payloads of the Data messages of a sequence of messages, in order
DataPayloads(msgs) ==
    LET D == SelectSeq(msgs, LAMBDA m : m.tag = "Data")
    IN  [i \in 1..Len(D) |-> D[i].bytes]

\* the chunks that carry bytes (the empty chunk is the terminating marker)
NonEmptyChunks(chunks) == SelectSeq(chunks, LAMBDA c : c # <<>>)

StartsOf(msgs) == SelectSeq(msgs, LAMBDA m : m.tag = "Start")

\* indexes of the messages received by the spawned task
ForwardedIdx == 2..Len(consumed)

\* Start first, then Data only, then at most one Done as the last message
WellFormedStream(msgs) ==
    /\ Len(msgs) >= 1
    /\ msgs[1].tag = "Start"
    /\ \A i \in 2..Len(msgs) :
         \/ msgs[i].tag = "Data"
         \/ msgs[i].tag = "Done" /\ i = Len(msgs)

(* ------------------------------- C1 ------------------------------------ *)

\* C1: for every sequence of messages on the result channel the notifier is
\* invoked at most once, handle_response and the spawned task taken together.
C1_AtMostOneEvent == Len(events) <= 1

(* ------------------------------- C2 ------------------------------------ *)

\* C2: for a stream Start, Data*, Done the response returned carries the
\* status and headers of the Start, the body stream gets exactly the payloads
\* of the Data messages in channel order (then the empty closing chunk), and
\* the single Bytes event reports the length of the body.
C2_WellFormedStream ==
    WellFormedStream(consumed) =>
      /\ pc = "returned" => ret = OkStream(BuilderFrom(consumed[1].response))
      /\ pc = "wait" => handoff = << consumed[1].response >>
      /\ pc # "match" => bodyAlive
      /\ IF Last(consumed).tag = "Done"
         THEN /\ sink = DataPayloads(consumed) \o << <<>> >>
              /\ Concat(sink) = Concat(DataPayloads(consumed))
              /\ events = << BytesEvent(Len(Concat(sink)),
                                        Some(AsMicros(Last(consumed).elapsed)),
                                        "forwarder") >>
         ELSE /\ sink = DataPayloads(consumed)
              /\ events = <<>>

C2_Witness ==
    /\ WellFormedStream(consumed)
    /\ Len(consumed) = 4
    /\ Last(consumed).tag = "Done"
    /\ consumed[2].bytes # consumed[3].bytes
    /\ pc = "returned"

(* ------------------------------- C3 ------------------------------------ *)

\* C3: when Data messages are received before the Start, the body stream
\* still holds every early chunk once, and all Data payloads, early and late,
\* are in it in channel order.
C3_EarlyDataKept ==
    (/\ Len(consumed) >= 2
     /\ consumed[1].tag = "Data"
     /\ StartsOf(consumed) # <<>>)
    =>
      /\ bodyAlive
      /\ NonEmptyChunks(sink) = DataPayloads(consumed)
      /\ Concat(sink) = Concat(DataPayloads(consumed))

C3_Witness ==
    /\ Len(consumed) = 4
    /\ consumed[1].tag = "Data"
    /\ consumed[2].tag = "Data"
    /\ consumed[1].bytes # consumed[2].bytes
    /\ consumed[3].tag = "Start"
    /\ consumed[4].tag = "Data"
    /\ ret.kind = "ok"

(* ------------------------------- C4 ------------------------------------ *)

\* C4: the status and headers of a streamed response returned by
\* handle_response are those of the first Start received, whatever Start
\* messages follow and however the spawned task interleaves with the caller.
C4_FirstStartFixesHeaders ==
    (ret.kind = "ok" /\ ret.streamed) =>
      /\ StartsOf(consumed) # <<>>
      /\ ret = OkStream(BuilderFrom(StartsOf(consumed)[1].response))

\* a second, different Start was received while the caller was still waiting
C4_Witness ==
    /\ ret.kind = "ok"
    /\ ret.streamed
    /\ Len(StartsOf(consumed)) >= 2
    /\ StartsOf(consumed)[1] # StartsOf(consumed)[2]
    /\ consumed[1].tag = "Data"
    /\ pcF = "send"

(* ------------------------------- C5 ------------------------------------ *)

\* C5: a first message Response{status, body, elapsed} is answered with that
\* status and body and exactly one Bytes(len(body), elapsed) event; no task
\* is spawned and nothing else is received from the channel.
C5_BufferedResponse ==
    (result # None /\ result[1].tag = "Response") =>
      /\ pcF = "none"
      /\ consumed = << result[1] >>
      /\ pc = "returned" =>
           /\ ret = OkBody(result[1].response.status, result[1].response.headers,
                           result[1].response.body)
           /\ events = << BytesEvent(Len(result[1].response.body),
                                     IF result[1].elapsed = None THEN None
                                     ELSE Some(result[1].elapsed[1] * 1000),
                                     "handle_response") >>

C5_Witness ==
    /\ result # None
    /\ result[1].tag = "Response"
    /\ result[1].response.body # <<>>
    /\ result[1].elapsed # None
    /\ pc = "returned"
    /\ chan # <<>>

(* ------------------------------- C6 ------------------------------------ *)

\* C6: a stream that consists of a Done only yields exactly one
\* StreamDoneNoDataError event, and handle_response returns a response with
\* an empty body.
C6_DoneOnlyReturnsResponse ==
    (consumed = << DoneMsg(2) >> /\ chan = <<>> /\ ~txAlive /\ pc = "returned") =>
      /\ events = << StreamDoneNoDataErrorEvent("handle_response") >>
      /\ ret.kind = "ok"
      /\ Concat(sink) = <<>>

(* ------------------------------- C7 ------------------------------------ *)

\* C7: a first message Timeout or MemoryLimit gives exactly one LimitsReached
\* event and the 502 page, a first message Error exactly one Error event and
\* the 500 page; the event is emitted before the response is returned, no
\* task is spawned and nothing else is received from the channel.
C7_LimitsAndError ==
    (result # None /\ result[1].tag \in {"Timeout", "MemoryLimit", "Error"}) =>
      LET m == result[1]
          ev == IF m.tag = "Error"
                THEN [kind |-> "Error", msg |-> m, by |-> "handle_response"]
                ELSE [kind |-> "LimitsReached", msg |-> m, by |-> "handle_response"]
      IN  /\ pcF = "none"
          /\ consumed = << m >>
          /\ pc = "match" => events = <<>> /\ ret = NoReturn
          /\ pc = "build" => events = << ev >> /\ ret = NoReturn
          /\ pc = "returned" =>
               /\ events = << ev >>
               /\ ret = IF m.tag = "Error"
                        THEN OkBody(500, "", PAGE_500)
                        ELSE OkBody(502, "", PAGE_502)

C7_Witness ==
    /\ result # None
    /\ result[1].tag \in {"Timeout", "MemoryLimit", "Error"}
    /\ pc = "returned"
    /\ chan # <<>>

(* ------------------------------- C8 ------------------------------------ *)

\* C8: a first message NotFound is answered with the 404 page and the
\* notifier is never invoked.
C8_NotFoundSilent ==
    (result # None /\ result[1].tag = "NotFound") =>
      /\ events = <<>>
      /\ pcF = "none"
      /\ pc = "returned" => ret = OkBody(404, "", PAGE_404)

C8_Witness ==
    /\ result # None
    /\ result[1].tag = "NotFound"
    /\ pc = "returned"
    /\ chan # <<>>

(* ------------------------------- C9 ------------------------------------ *)

\* C9: after the spawned task has received a Done it receives no further
\* message (the Done is the last message taken from the channel), writes no
\* further Data and emits no further event.
C9_DoneStopsForwarder ==
    \A i \in ForwardedIdx : consumed[i].tag = "Done" => i = Len(consumed)

(* ------------------------------- C10 ----------------------------------- *)

\* C10: when the spawned task receives a message that is not a Stream it
\* emits UnexpectedStreamResult with that message, writes the empty closing
\* chunk and stops: that message is the last one received, the event the last
\* one emitted and the empty chunk the last one written.
C10_UnexpectedStops ==
    \A i \in ForwardedIdx :
      ~IsStream(consumed[i]) =>
        /\ i = Len(consumed)
        /\ pcF = "done"
        /\ events # <<>>
        /\ Last(events) =
             [kind |-> "UnexpectedStreamResult", msg |-> consumed[i], by |-> "forwarder"]
        /\ sink # <<>>
        /\ Last(sink) = <<>>

C10_Witness ==
    /\ Len(consumed) >= 3
    /\ ~IsStream(Last(consumed))
    /\ consumed[2].tag = "Data"
    /\ pcF = "done"
    /\ chan # <<>>

(* ------------------------------- C11 ----------------------------------- *)

RECURSIVE SumLen(_)
SumLen(chunks) ==
    IF chunks = <<>> THEN 0 ELSE Len(Head(chunks)) + SumLen(Tail(chunks))

C12_OneInvoker ==
    \A i, j \in 1..Len(events) : events[i].by = events[j].by

(* ------------------------------- C13 ----------------------------------- *)

\* C13: in streaming mode the count of every Bytes event is the sum of the
\* payload lengths of all Data messages received up to the Done it reports,
\* the first message included; total_bytes is that sum after every message.
C13_BytesCountsAllData ==
    (result # None /\ IsStream(result[1]) /\ pc # "match") =>
      /\ total_bytes = SumLen(DataPayloads(consumed))
      /\ (Len(consumed) >= 2 /\ Last(consumed).tag = "Done") =>
           Last(events) = BytesEvent(SumLen(DataPayloads(consumed)),
                                     Some(AsMicros(Last(consumed).elapsed)),
                                     "forwarder")

\* the first message is a Data, a second Data follows, then the Done
C13_Witness ==
    /\ Len(consumed) >= 3
    /\ consumed[1].tag = "Data"
    /\ consumed[2].tag = "Data"
    /\ Last(consumed).tag = "Done"
    /\ Last(events).kind = "Bytes"
    /\ Last(events).total = 3

(* ------------------------------- C14 ----------------------------------- *)

\* C14: when the result channel closes while the spawned task is waiting for
\* a message, the loop ends and stream_tx is dropped, so the body ends; no
\* event is emitted and nothing is written, neither by the producer's drop
\* nor by the end of the loop.
C14_ClosureIsSilent ==
    [][ /\ (txAlive /\ ~txAlive') => (events' = events /\ sink' = sink)
        /\ (pcF = "recv" /\ pcF' = "done" /\ consumed' = consumed)
           => /\ ~txAlive
              /\ events' = events
              /\ sink' = sink
              /\ ~streamTx'
              /\ ~rxAlive' ]_vars

\* the channel closed after Start and Data only: the task has ended, the body
\* has ended and no event was emitted
C14_Witness ==
    /\ pcF = "done"
    /\ ~txAlive
    /\ ~streamTx
    /\ Len(consumed) >= 3
    /\ \A i \in 1..Len(consumed) : consumed[i].tag \in {"Start", "Data"}
    /\ events = <<>>

(* ------------------------------- C15 ----------------------------------- *)

\* C15: handle_response returns a streamed response only after a Start has
\* been received, also when the first message was a Data or a Done.
C15_StartBeforeReturn ==
    [][ (ret.kind # "ok" /\ ret'.kind = "ok" /\ ret'.streamed)
        => StartsOf(consumed) # <<>> ]_vars

\* the first message was a Done, the Start came later
C15_Witness ==
    /\ ret.kind = "ok"
    /\ ret.streamed
    /\ consumed[1].tag = "Done"
    /\ consumed[2].tag = "Data"

(* ------------------------------- C16 ----------------------------------- *)

\* C16: when the first message is a Start, handle_response has its response
\* at hand as soon as the task is spawned and eventually returns it, whatever
\* the producer and the spawned task do or fail to do.
C16_StartReturnsWithoutWaiting ==
    /\ []((result # None /\ result[1].tag = "Start" /\ pc = "wait")
          => handoff = << result[1].response >>)
    /\ (result # None /\ result[1].tag = "Start")
       ~> (ret.kind = "ok" /\ ret.streamed)

\* returned while the producer sent nothing more and kept the channel open,
\* and the spawned task has not run
C16_Witness ==
    /\ ret.kind = "ok"
    /\ ret.streamed
    /\ Len(consumed) = 1
    /\ consumed[1].tag = "Start"
    /\ chan = <<>>
    /\ txAlive
    /\ pcF = "recv"

(* ------------------------------- C17 ----------------------------------- *)

\* C17: when on_event returns Err on a path of handle_response itself (first
\* message Response, Timeout, MemoryLimit, Error or Done), handle_response
\* returns that Err; for a first-message Done nothing has been written to the
\* body stream, no task is spawned and nothing more is received.
C17_NotifierFailurePropagates ==
    (notifier = "failed" /\ pcF # "panicked") =>
      /\ pc = "returned"
      /\ ret = Err("on_event")
      /\ Len(consumed) = 1
      /\ consumed[1].tag \in {"Response", "Timeout", "MemoryLimit", "Error", "Done"}
      /\ Len(events) = 1
      /\ pcF = "none"
      /\ sink = <<>>
      /\ ~streamTx
      /\ ~bodyAlive
      /\ ~rxAlive

\* on_event failed for a first-message Done while more messages were queued
C17_Witness ==
    /\ notifier = "failed"
    /\ Len(consumed) = 1
    /\ consumed[1].tag = "Done"
    /\ chan # <<>>
    /\ ret.kind = "err"

(* ------------------------------- C18 ----------------------------------- *)

\* C18: once the caller has dropped the streamed response, no write of the
\* spawned task reaches the body stream, and the task neither stops nor
\* panics because of it: it ends only on a message that is not a Stream or on
\* the closed channel, it keeps counting every Data it receives and it emits
\* the Bytes event with that count when a Done arrives.
C18_DroppedResponseIgnored ==
    /\ []((ret.kind = "ok" /\ ret.streamed /\ ~bodyAlive) =>
            /\ pcF \in {"recv", "send", "done"}
            /\ pcF = "done" => \/ ~IsStream(Last(consumed))
                               \/ chan = <<>> /\ ~txAlive
            /\ (pcF = "recv" /\ chan # <<>>) => ENABLED ForwarderStep
            /\ total_bytes = SumLen(DataPayloads(consumed))
            /\ (Len(consumed) >= 2 /\ Last(consumed).tag = "Done") =>
                 Last(events) = BytesEvent(total_bytes,
                                           Some(AsMicros(Last(consumed).elapsed)),
                                           "forwarder"))
    /\ [][ (ret.kind = "ok" /\ ret.streamed /\ ~bodyAlive) => sink' = sink ]_vars

\* a Data received after the drop was counted and not written, and the Done
\* after it was reported
C18_Witness ==
    /\ ret.kind = "ok"
    /\ ret.streamed
    /\ ~bodyAlive
    /\ Len(consumed) >= 3
    /\ Last(consumed).tag = "Done"
    /\ Last(events).kind = "Bytes"
    /\ Last(events).total > SumLen(sink)

(* ------------------------------- C19 ----------------------------------- *)

\* streaming was entered by a Data or a Done and the spawned task has ended
\* without receiving a Start
EndedWithoutStart ==
    /\ result # None
    /\ result[1].tag \in {"Data", "Done"}
    /\ pcF = "done"
    /\ StartsOf(consumed) = <<>>

\* C19: when streaming was entered by a Data or a Done and the spawned task
\* ends without receiving a Start, handle_response neither hangs nor returns
\* a default response: the handoff channel is empty and closed, and it
\* returns the receive error, also after a Bytes event was emitted.
C19_NoStartReturnsError ==
    /\ [](EndedWithoutStart =>
            /\ handoff = <<>>
            /\ pc \in {"wait", "returned"}
            /\ pc = "returned" => ret = Err("RecvError"))
    /\ EndedWithoutStart ~> (ret = Err("RecvError"))

\* the error is returned after Data, Done and the Bytes event of that Done
C19_Witness ==
    /\ EndedWithoutStart
    /\ ret.kind = "err"
    /\ consumed[1].tag = "Data"
    /\ events # <<>>
    /\ Last(events).kind = "Bytes"

(* ------------------------------- C20 ----------------------------------- *)

\* C20: a send of the spawned task that waits on the full handoff channel is
\* always released: while it waits, either the caller is at its receive with
\* a response queued, or response_rx is dropped; the task gets back to its
\* loop, and a message queued behind the Start is then received.
C20_HandoffReleased ==
    /\ [](pcF = "send" =>
            /\ pending # None
            /\ \/ pc = "wait" /\ handoffRx /\ handoff # <<>>
               \/ ~handoffRx)
    /\ (pcF = "send") ~> (pcF = "recv")
    /\ \A n \in 1..MaxMsgs :
         (pcF = "send" /\ chan # <<>> /\ Len(consumed) = n) ~> (Len(consumed) > n)

\* the task waits with a second Start while a Data is queued behind it
C20_Witness ==
    /\ pcF = "send"
    /\ pc = "wait"
    /\ Len(StartsOf(consumed)) >= 2
    /\ chan # <<>>
    /\ Head(chan).tag = "Data"

====
